---- MODULE Spec2Model ----
(***************************************************************************)
(* Model of app.py: the batch handler tokenizer_interface, the two tagging *)
(* functions, create_xml_content and create_zip_archive.                   *)
(*                                                                         *)
(* A str is a sequence of Unicode code points, a bytes object a sequence   *)
(* of 0..255.  None and the empty list are both written <<>>: the only     *)
(* consumer of a tagging function's result (app.py:233) tests truthiness.  *)
(***************************************************************************)
EXTENDS Integers, Sequences, FiniteSets, TLC

VARIABLES
    uploaded_files,   \* st.file_uploader result: sequence of [name, bytes]
    lang_code,        \* "JP" or "EN" (language_selector_page)
    tagger_instance,  \* the global read by tagger_func: "None" or "loaded"
    pc,               \* "idle", "loop", "done"
    i,                \* number of loop iterations completed
    output_data,      \* insertion-ordered dict: sequence of [name, data]
    tag_calls,        \* texts passed to tagger_func, in call order
    messages,         \* st.success / st.warning / st.error, in order
    progress_bar,     \* [shown, done, total]
    zip_bytes,        \* members of the archive, in the order written
    download_button   \* TRUE once st.download_button was rendered

vars == <<uploaded_files, lang_code, tagger_instance, pc, i, output_data,
          tag_calls, messages, progress_bar, zip_bytes, download_button>>

\* ---------------------------------------------------------------- bounds
MaxFiles == 3
MaxTextLen == 4
MaxNameLen == 5

\* ------------------------------------------------------- string literals
\* '<corpus lang="'
CorpusOpen == <<60, 99, 111, 114, 112, 117, 115, 32, 108, 97, 110, 103, 61, 34>>
\* '" id="'
IdAttr == <<34, 32, 105, 100, 61, 34>>
\* '">'
TagEnd == <<34, 62>>
\* '</corpus lang="'
CorpusClose == <<60, 47, 99, 111, 114, 112, 117, 115, 32, 108, 97, 110, 103, 61, 34>>
\* '_tagged.xml'
TaggedSuffix == <<95, 116, 97, 103, 103, 101, 100, 46, 120, 109, 108>>
\* '<?xml version="1.0" encoding="UTF-8"?>'
XmlDecl ==
    <<60, 63, 120, 109, 108, 32, 118, 101, 114, 115, 105, 111, 110, 61, 34,
      49, 46, 48, 34, 32, 101, 110, 99, 111, 100, 105, 110, 103, 61, 34, 85,
      84, 70, 45, 56, 34, 63, 62>>
\* the language code as a str
LangText(lc) == IF lc = "JP" THEN <<74, 80>> ELSE <<69, 78>>

\* --------------------------------------------------------- str primitives
\* str.isspace / regex \s, on Latin-1
IsSpace(c) == c \in {9, 10, 11, 12, 13, 28, 29, 30, 31, 32, 133, 160}
\* regex \d, on Latin-1
IsDigit(c) == c \in 48..57
\* regex \w (str.isalnum or '_'), on Latin-1
IsWord(c) ==
    c \in (48..57) \cup (65..90) \cup {95} \cup (97..122)
          \cup {170, 178, 179, 181, 185, 186, 188, 189, 190}
          \cup (192..214) \cup (216..246) \cup (248..255)

\* sep.join(parts)
RECURSIVE Join(_, _)
Join(parts, sep) ==
    IF parts = <<>> THEN <<>>
    ELSE IF Len(parts) = 1 THEN parts[1]
    ELSE parts[1] \o sep \o Join(Tail(parts), sep)

\* str.strip()
RECURSIVE LStrip(_)
LStrip(s) == IF s # <<>> /\ IsSpace(Head(s)) THEN LStrip(Tail(s)) ELSE s
RECURSIVE RStrip(_)
RStrip(s) ==
    IF s # <<>> /\ IsSpace(s[Len(s)]) THEN RStrip(SubSeq(s, 1, Len(s) - 1)) ELSE s
Strip(s) == RStrip(LStrip(s))

\* str.rfind(ch): last 1-based index of ch, 0 when absent
RFind(s, ch) ==
    IF \E k \in 1..Len(s) : s[k] = ch
    THEN CHOOSE k \in 1..Len(s) : s[k] = ch /\ \A j \in (k+1)..Len(s) : s[j] # ch
    ELSE 0

\* os.path.splitext(p)[0] (posixpath: sep '/', extsep '.')
splitext_root(p) ==
    LET sepIndex == RFind(p, 47)
        dotIndex == RFind(p, 46)
    IN  IF dotIndex > sepIndex
           /\ \E k \in (sepIndex + 1)..(dotIndex - 1) : p[k] # 46
        THEN SubSeq(p, 1, dotIndex - 1)
        ELSE p

\* end of the maximal run of digits starting at p (p - 1 when none)
RECURSIVE DigitsEnd(_, _)
DigitsEnd(s, p) ==
    IF p <= Len(s) /\ IsDigit(s[p]) THEN DigitsEnd(s, p + 1) ELSE p - 1

\* does r' \(\d+\)$' match at p; '$' is the end or just before a final newline
DupMatchAt(s, p) ==
    /\ p + 3 <= Len(s)
    /\ s[p] = 32
    /\ s[p + 1] = 40
    /\ LET e == DigitsEnd(s, p + 2)
       IN  /\ e >= p + 2
           /\ e + 1 <= Len(s)
           /\ s[e + 1] = 41
           /\ \/ e + 1 = Len(s)
              \/ e + 2 = Len(s) /\ s[e + 2] = 10

\* re.sub(r' \(\d+\)$', '', s)
re_sub_dup(s) ==
    IF \E p \in 1..Len(s) : DupMatchAt(s, p)
    THEN LET p == CHOOSE q \in 1..Len(s) :
                      DupMatchAt(s, q) /\ \A r \in 1..(q - 1) : ~DupMatchAt(s, r)
             e == DigitsEnd(s, p + 2)
         IN  SubSeq(s, 1, p - 1) \o SubSeq(s, e + 2, Len(s))
    ELSE s

\* ------------------------------------------------------------------ UTF-8
Utf8Len(b0) ==
    IF b0 < 128 THEN 1
    ELSE IF b0 \in 194..223 THEN 2
    ELSE IF b0 \in 224..239 THEN 3
    ELSE IF b0 \in 240..244 THEN 4
    ELSE 0

Utf8ValidAt(b, p) ==
    LET n == Utf8Len(b[p])
    IN  /\ n > 0
        /\ p + n - 1 <= Len(b)
        /\ \A k \in 1..(n - 1) : b[p + k] \in 128..191
        /\ (b[p] = 224 => b[p + 1] >= 160)
        /\ (b[p] = 237 => b[p + 1] <= 159)
        /\ (b[p] = 240 => b[p + 1] >= 144)
        /\ (b[p] = 244 => b[p + 1] <= 143)

Utf8CodePoint(b, p) ==
    LET n == Utf8Len(b[p])
    IN  IF n = 1 THEN b[p]
        ELSE IF n = 2 THEN (b[p] - 192) * 64 + (b[p + 1] - 128)
        ELSE IF n = 3 THEN (b[p] - 224) * 4096 + (b[p + 1] - 128) * 64
                           + (b[p + 2] - 128)
        ELSE (b[p] - 240) * 262144 + (b[p + 1] - 128) * 4096
             + (b[p + 2] - 128) * 64 + (b[p + 3] - 128)

IsContinuation(x) == x \in 128..191

\* is the continuation byte at p one of those that follow a lead byte
Utf8Covered(b, p) ==
    \E q \in 1..(p - 1) :
        /\ ~IsContinuation(b[q])
        /\ Utf8Len(b[q]) > p - q
        /\ \A r \in (q + 1)..(p - 1) : IsContinuation(b[r])

\* does bytes.decode('utf-8') return (TRUE) or raise UnicodeDecodeError:
\* every byte is a well-formed lead byte or a continuation byte of one
CanDecode(b) ==
    \A p \in 1..Len(b) :
        IF IsContinuation(b[p]) THEN Utf8Covered(b, p) ELSE Utf8ValidAt(b, p)

\* bytes.decode('utf-8') when it returns: one code point per lead byte
decode_utf8(b) ==
    LET starts == SelectSeq([p \in 1..Len(b) |-> p],
                            LAMBDA p : ~IsContinuation(b[p]))
    IN  [k \in 1..Len(starts) |-> Utf8CodePoint(b, starts[k])]

EncodeChar(c) ==
    IF c < 128 THEN <<c>>
    ELSE IF c < 2048 THEN <<192 + (c \div 64), 128 + (c % 64)>>
    ELSE IF c < 65536
         THEN <<224 + (c \div 4096), 128 + ((c \div 64) % 64), 128 + (c % 64)>>
    ELSE <<240 + (c \div 262144), 128 + ((c \div 4096) % 64),
           128 + ((c \div 64) % 64), 128 + (c % 64)>>

\* str.encode('utf-8'): the encodings of the characters, in order
RECURSIVE encode_utf8(_)
encode_utf8(s) ==
    IF s = <<>> THEN <<>>
    ELSE IF Len(s) = 1 THEN EncodeChar(s[1])
    ELSE encode_utf8(SubSeq(s, 1, Len(s) \div 2))
         \o encode_utf8(SubSeq(s, Len(s) \div 2 + 1, Len(s)))

\* ------------------------------------------------------ tagging functions
\* character class: "w" for \w, "s" for \s, "o" for [^\s\w]
CharClass(c) == IF IsWord(c) THEN "w" ELSE IF IsSpace(c) THEN "s" ELSE "o"

RECURSIVE RunEnd(_, _, _)
RunEnd(s, p, cls) ==
    IF p < Len(s) /\ CharClass(s[p + 1]) = cls THEN RunEnd(s, p + 1, cls) ELSE p

\* re.findall(r"\w+|[^\s\w]+", text)
RECURSIVE FindAllFrom(_, _)
FindAllFrom(s, p) ==
    IF p > Len(s) THEN <<>>
    ELSE IF CharClass(s[p]) = "s" THEN FindAllFrom(s, p + 1)
    ELSE LET e == RunEnd(s, p, CharClass(s[p]))
         IN  <<SubSeq(s, p, e)>> \o FindAllFrom(s, e + 1)

\* variant: text.split(), tokens are the whitespace-separated chunks
RECURSIVE ChunkEnd(_, _)
ChunkEnd(s, p) ==
    IF p < Len(s) /\ ~IsSpace(s[p + 1]) THEN ChunkEnd(s, p + 1) ELSE p
RECURSIVE SplitFrom(_, _)
SplitFrom(s, p) ==
    IF p > Len(s) THEN <<>>
    ELSE IF IsSpace(s[p]) THEN SplitFrom(s, p + 1)
    ELSE <<SubSeq(s, p, ChunkEnd(s, p))>> \o SplitFrom(s, ChunkEnd(s, p) + 1)
re_findall_Split(text) == SplitFrom(text, 1)

re_findall(text) == FindAllFrom(text, 1)

\* [token.strip() for token in tokens if token.strip()]
RECURSIVE StripNonEmpty(_)
StripNonEmpty(tokens) ==
    IF tokens = <<>> THEN <<>>
    ELSE (IF Strip(Head(tokens)) # <<>> THEN <<Strip(Head(tokens))>> ELSE <<>>)
         \o StripNonEmpty(Tail(tokens))

\* variant: r"\w+" alone, punctuation is dropped
english_words_WordsOnly(text) ==
    SelectSeq(StripNonEmpty(re_findall(text)), LAMBDA w : IsWord(w[1]))

english_words(text) == StripNonEmpty(re_findall(text))

\* tags the perceptron tagger may assign: 'NN', 'VB'
POSTags == {<<78, 78>>, <<86, 66>>}

\* process_text_english with the tagger loaded; pos[k] is the tag that
\* ENGLISH_TAGGER_INSTANCE.tag(words) gives the k-th word.
process_text_english(text, pos) ==
    LET words == english_words(text)
    IN  IF words = <<>> THEN <<>>
        ELSE [k \in 1..Len(words) |-> <<words[k], pos[k], words[k]>>]

\* nodes JAPANESE_TAGGER.parseToNodeList may return:
\*   surface 'a\tb', pos1 'N', no lemma;  surface 'x', pos1 'V', lemma 'y\n';
\*   a node without surface
JPNodeA == [surface |-> <<97, 9, 98>>, pos1 |-> <<78>>, lemma |-> <<>>]
JPNodeB == [surface |-> <<120>>, pos1 |-> <<86>>, lemma |-> <<121, 10>>]
JPNodeE == [surface |-> <<>>, pos1 |-> <<88>>, lemma |-> <<>>]
\* the node lists it may return for text: no node with a surface for blank
\* text, at least one otherwise
JPNodeLists(text) ==
    IF Strip(text) = <<>>
    THEN {<<>>, <<JPNodeE>>}
    ELSE {<<JPNodeE, JPNodeB, JPNodeA>>}

\* process_text_japanese with the tagger loaded
RECURSIVE process_text_japanese(_)
process_text_japanese(nodes) ==
    IF nodes = <<>> THEN <<>>
    ELSE LET node == Head(nodes)
             lemma == IF node.lemma # <<>> THEN node.lemma ELSE node.surface
         IN  (IF node.surface # <<>>
              THEN <<<<node.surface, node.pos1, lemma>>>>
              ELSE <<>>)
             \o process_text_japanese(Tail(nodes))

\* is the tagger instance reached by tagger_func(text)
TaggerInvoked(text) ==
    /\ tagger_instance = "loaded"
    /\ lang_code = "JP" \/ english_words(text) # <<>>

\* the values tagger_func(text) may return
TaggerResults(text) ==
    IF tagger_instance = "None" THEN {<<>>}
    ELSE IF lang_code = "JP"
         THEN {process_text_japanese(nodes) : nodes \in JPNodeLists(text)}
    ELSE {process_text_english(text, pos) :
              pos \in [1..Len(english_words(text)) -> POSTags]}

\* ------------------------------------------------------------ XML and zip
\* create_xml_content, lines 130-132
sanitized_id(original_filename) ==
    Strip(re_sub_dup(splitext_root(original_filename)))

\* variant: the columns are joined by spaces
format_line_Spaces(triple) ==
    triple[1] \o <<32>> \o triple[2] \o <<32>> \o triple[3]

\* f"{token}\t{pos}\t{lemma}"
format_line(triple) == triple[1] \o <<9>> \o triple[2] \o <<9>> \o triple[3]

\* "\n".join(content_block)
content_block(data_list) ==
    Join([k \in 1..Len(data_list) |-> format_line(data_list[k])], <<10>>)

\* variant: the XML declaration is written first
create_xml_content_WithDecl(data_list, original_filename, lc) ==
    LET sid == sanitized_id(original_filename)
        xml_lines ==
            << XmlDecl,
               CorpusOpen \o LangText(lc) \o IdAttr \o sid \o TagEnd,
               content_block(data_list),
               CorpusClose \o LangText(lc) \o IdAttr \o sid \o TagEnd >>
    IN  Join(xml_lines, <<10>>)

create_xml_content(data_list, original_filename, lc) ==
    LET sid == sanitized_id(original_filename)
        xml_lines ==
            << CorpusOpen \o LangText(lc) \o IdAttr \o sid \o TagEnd,
               content_block(data_list),
               CorpusClose \o LangText(lc) \o IdAttr \o sid \o TagEnd >>
    IN  Join(xml_lines, <<10>>)

\* variant: the base name is not stripped
sanitized_base_name_NoStrip(original_name) ==
    re_sub_dup(splitext_root(original_name))

\* create_zip_archive, lines 163-164
sanitized_base_name(original_name) ==
    Strip(re_sub_dup(splitext_root(original_name)))

xml_name(original_name) == sanitized_base_name(original_name) \o TaggedSuffix

\* variant: a member of the same name is replaced
writestr_Replace(zf, name, content) ==
    IF \E k \in 1..Len(zf) : zf[k].name = name
    THEN [k \in 1..Len(zf) |->
              IF zf[k].name = name THEN [name |-> name, content |-> content]
              ELSE zf[k]]
    ELSE Append(zf, [name |-> name, content |-> content])

\* ZipFile.writestr: the member is appended; a name already present draws a
\* warning and the earlier member stays in the archive.
writestr(zf, name, content) == Append(zf, [name |-> name, content |-> content])

RECURSIVE ZipEntries(_, _, _)
ZipEntries(zf, entries, lc) ==
    IF entries = <<>> THEN zf
    ELSE LET e == Head(entries)
             xml_content == create_xml_content(e.data, e.name, lc)
         IN  ZipEntries(writestr(zf, xml_name(e.name), encode_utf8(xml_content)),
                        Tail(entries), lc)

create_zip_archive(od, lc) == ZipEntries(<<>>, od, lc)

\* variant: every assignment adds an entry
DictSet_AlwaysAppend(d, key, value) == Append(d, [name |-> key, data |-> value])

\* output_data[filename] = data_list
DictSet(d, key, value) ==
    IF \E k \in 1..Len(d) : d[k].name = key
    THEN [k \in 1..Len(d) |->
              IF d[k].name = key THEN [name |-> key, data |-> value] ELSE d[k]]
    ELSE Append(d, [name |-> key, data |-> value])

\* ------------------------------------------------------------- the handler
\* variant: "if data_list is not None or data_list == []"
Truthy_Always(data_list) == TRUE

\* "if data_list:", line 233
Truthy(data_list) == data_list # <<>>

Msg(kind, file, what, n) == [kind |-> kind, file |-> file, what |-> what, n |-> n]

\* line 242
ProgressAfter(done) ==
    [shown |-> TRUE, done |-> done, total |-> Len(uploaded_files)]

\* if uploaded_files: if st.button(...): lines 220-221
StartTagging ==
    /\ pc = "idle"
    /\ uploaded_files # <<>>
    /\ output_data' = <<>>
    /\ progress_bar' = ProgressAfter(0)
    /\ pc' = "loop"
    /\ UNCHANGED <<uploaded_files, lang_code, tagger_instance, i, tag_calls,
                   messages, zip_bytes, download_button>>

\* one loop iteration, lines 224-242, ending at line 235
ProcessSuccess ==
    /\ pc = "loop"
    /\ i < Len(uploaded_files)
    /\ LET file == uploaded_files[i + 1]
       IN  /\ CanDecode(file.bytes)
           /\ \E data_list \in TaggerResults(decode_utf8(file.bytes)) :
                 /\ Truthy(data_list)
                 /\ output_data' = DictSet(output_data, file.name, data_list)
                 /\ messages' = Append(messages,
                        Msg("success", i + 1, "processed", Len(data_list)))
           /\ tag_calls' = Append(tag_calls, decode_utf8(file.bytes))
    /\ i' = i + 1
    /\ progress_bar' = ProgressAfter(i + 1)
    /\ UNCHANGED <<uploaded_files, lang_code, tagger_instance, pc, zip_bytes,
                   download_button>>

\* one loop iteration, lines 224-242, ending at line 237
ProcessNoTokens ==
    /\ pc = "loop"
    /\ i < Len(uploaded_files)
    /\ LET file == uploaded_files[i + 1]
           unavailable ==
               IF lang_code = "EN" /\ tagger_instance = "None"
               THEN <<Msg("error", i + 1, "tagger_unavailable", 0)>>
               ELSE <<>>
       IN  /\ CanDecode(file.bytes)
           /\ \E data_list \in TaggerResults(decode_utf8(file.bytes)) :
                 ~Truthy(data_list)
           /\ messages' = messages \o unavailable
                          \o <<Msg("warning", i + 1, "no_tokens", 0)>>
           /\ tag_calls' = Append(tag_calls, decode_utf8(file.bytes))
    /\ i' = i + 1
    /\ progress_bar' = ProgressAfter(i + 1)
    /\ UNCHANGED <<uploaded_files, lang_code, tagger_instance, pc, output_data,
                   zip_bytes, download_button>>

\* variant: no handler, the exception leaves tokenizer_interface
ExceptHandler_Propagates(raised) ==
    /\ pc' = "raised"
    /\ UNCHANGED <<messages, i, progress_bar>>

\* "except Exception as e", lines 239-240: what the iteration does once
\* `raised` was raised at call number i + 1
ExceptHandler(raised) ==
    /\ messages' = Append(messages, Msg("error", i + 1, raised, 0))
    /\ i' = i + 1
    /\ progress_bar' = ProgressAfter(i + 1)
    /\ UNCHANGED pc

\* one loop iteration, lines 224-242, in which read, decode or the tagging
\* call raises
ProcessFailed ==
    /\ pc = "loop"
    /\ i < Len(uploaded_files)
    /\ LET file == uploaded_files[i + 1]
       IN  \E raised \in {"read", "decode", "tag"} :
              /\ raised = "decode" => ~CanDecode(file.bytes)
              /\ raised = "tag" =>
                    CanDecode(file.bytes) /\ TaggerInvoked(decode_utf8(file.bytes))
              /\ tag_calls' = IF raised = "tag"
                              THEN Append(tag_calls, decode_utf8(file.bytes))
                              ELSE tag_calls
              /\ ExceptHandler(raised)
    /\ UNCHANGED <<uploaded_files, lang_code, tagger_instance, output_data,
                   zip_bytes, download_button>>

EmptiedBar == [shown |-> FALSE, done |-> 0, total |-> 0]

\* lines 244-261
OutputArchive ==
    /\ pc = "loop"
    /\ i = Len(uploaded_files)
    /\ output_data # <<>>
    /\ progress_bar' = EmptiedBar
    /\ zip_bytes' = create_zip_archive(output_data, lang_code)
    /\ messages' = Append(messages, Msg("success", 0, "complete", 0))
    /\ download_button' = TRUE
    /\ pc' = "done"
    /\ UNCHANGED <<uploaded_files, lang_code, tagger_instance, i, output_data,
                   tag_calls>>

\* variant: the archive is built and offered although it has no entries
OutputNothing_OffersArchive ==
    /\ pc = "loop"
    /\ i = Len(uploaded_files)
    /\ output_data = <<>>
    /\ progress_bar' = EmptiedBar
    /\ zip_bytes' = create_zip_archive(output_data, lang_code)
    /\ messages' = Append(messages, Msg("success", 0, "complete", 0))
    /\ download_button' = TRUE
    /\ pc' = "done"
    /\ UNCHANGED <<uploaded_files, lang_code, tagger_instance, i, output_data,
                   tag_calls>>

\* lines 244-247 and 262-263
OutputNothing ==
    /\ pc = "loop"
    /\ i = Len(uploaded_files)
    /\ output_data = <<>>
    /\ progress_bar' = EmptiedBar
    /\ messages' = Append(messages, Msg("error", 0, "none_processed", 0))
    /\ pc' = "done"
    /\ UNCHANGED <<uploaded_files, lang_code, tagger_instance, i, output_data,
                   tag_calls, zip_bytes, download_button>>

Next ==
    \/ StartTagging
    \/ ProcessSuccess
    \/ ProcessNoTokens
    \/ ProcessFailed
    \/ OutputArchive
    \/ OutputNothing

\* ------------------------------------------------------------------ inputs
\* all sequences over alphabet of length at most n
SeqsUpTo(alphabet, n) == UNION {[1..k -> alphabet] : k \in 0..n}

UploadedFile(name, bytes) == [name |-> name, bytes |-> bytes]

\* the state before the button is pressed, for the uploads in `batches`
InitWith(batches, langs, taggers) ==
    /\ uploaded_files \in batches
    /\ lang_code \in langs
    /\ tagger_instance \in taggers
    /\ pc = "idle"
    /\ i = 0
    /\ output_data = <<>>
    /\ tag_calls = <<>>
    /\ messages = <<>>
    /\ progress_bar = EmptiedBar
    /\ zip_bytes = <<>>
    /\ download_button = FALSE

\* 'a.txt', 'a (1).txt', 'b.txt'
NameA == <<97, 46, 116, 120, 116>>
NameA1 == <<97, 32, 40, 49, 41, 46, 116, 120, 116>>
NameB == <<98, 46, 116, 120, 116>>
BatchNames == {NameA, NameA1}
\* b'Hi', b' \n', and a byte string that is not UTF-8
BytesHi == <<72, 105>>
BytesBlank == <<32, 10>>
BytesBad == <<72, 255>>
BatchBytes == {BytesHi, BytesBlank, BytesBad}
BatchFiles == {UploadedFile(n, b) : n \in BatchNames, b \in BatchBytes}
\* three uploads of which the second is not UTF-8 and the third is 'b.txt'
ThreeFileBatches ==
    {<<UploadedFile(NameA, BytesHi), UploadedFile(n, BytesBad),
       UploadedFile(NameB, BytesHi)>> : n \in {NameA, NameA1, NameB}}

\* batches of up to MaxFiles uploads
Init ==
    InitWith(SeqsUpTo(BatchFiles, MaxFiles) \cup ThreeFileBatches,
             {"JP", "EN"}, {"None", "loaded"})
Spec == Init /\ [][Next]_vars

\* b'<doc><p>broken' and b'<doc><p>Hello world</p></doc>'
BytesBroken == <<60, 100, 111, 99, 62, 60, 112, 62, 98, 114, 111, 107, 101, 110>>
BytesHello ==
    <<60, 100, 111, 99, 62, 60, 112, 62, 72, 101, 108, 108, 111, 32, 119,
      111, 114, 108, 100, 60, 47, 112, 62, 60, 47, 100, 111, 99, 62>>
\* bytes of 'a', ' ', '<', '>', '/' and of the two-byte encoding of U+00E9
TextBytes == {97, 32, 60, 62, 47, 195, 169}

\* one upload 'a.txt' holding any short byte string or one of the samples
TextInit ==
    InitWith({<<UploadedFile(NameA, b)>> :
                  b \in SeqsUpTo(TextBytes, MaxTextLen)
                        \cup {BytesBroken, BytesHello}},
             {"JP", "EN"}, {"None", "loaded"})
TextSpec == TextInit /\ [][Next]_vars

\* 'My File (2).txt', 'plain.txt', 'no_ext'
NameMyFile2 == <<77, 121, 32, 70, 105, 108, 101, 32, 40, 50, 41, 46, 116, 120, 116>>
NamePlain == <<112, 108, 97, 105, 110, 46, 116, 120, 116>>
NameNoExt == <<110, 111, 95, 101, 120, 116>>
\* 'a', '.', ' ', '(', ')', '1'
NameChars == {97, 46, 32, 40, 41, 49}

\* one English upload holding 'Hi' under any short name or one of the
\* sample names
NameInit ==
    InitWith({<<UploadedFile(n, BytesHi)>> :
                  n \in SeqsUpTo(NameChars, MaxNameLen)
                        \cup {NameMyFile2, NamePlain, NameNoExt}},
             {"EN"}, {"None", "loaded"})
NameSpec == NameInit /\ [][Next]_vars

\* ------------------------------------------------------ shared vocabulary
\* the per-file outcome messages (lines 235, 237, 240), in order
Outcomes ==
    SelectSeq(messages, LAMBDA m : m.file > 0 /\ m.what # "tagger_unavailable")

\* indices of the uploads reported as processed
Succeeded == {k \in 1..Len(Outcomes) : Outcomes[k].kind = "success"}

\* original names of the uploads reported as processed
SuccessNames == {uploaded_files[k].name : k \in Succeeded}

ArchiveBuilt == pc = "done" /\ download_button

\* the parts one after another
RECURSIVE Concat(_)
Concat(ss) == IF ss = <<>> THEN <<>> ELSE Head(ss) \o Concat(Tail(ss))

IsPrefix(pre, s) == Len(pre) <= Len(s) /\ SubSeq(s, 1, Len(pre)) = pre
IsSuffix(suf, s) ==
    Len(suf) <= Len(s) /\ SubSeq(s, Len(s) - Len(suf) + 1, Len(s)) = suf

\* the part of a member name before '_tagged.xml'
MemberBase(m) == SubSeq(m.name, 1, Len(m.name) - Len(TaggedSuffix))

\* ----------------------------------------------------------------- C1
C1_InOrder ==
    /\ Len(Outcomes) = i
    /\ \A k \in 1..Len(Outcomes) : Outcomes[k].file = k
    /\ pc = "done" => i = Len(uploaded_files)
    /\ \A k \in 1..Len(Outcomes) :
          ~CanDecode(uploaded_files[k].bytes) =>
              Outcomes[k].kind = "error" /\ Outcomes[k].what \in {"read", "decode"}
    /\ (pc = "done" /\ Succeeded # {}) => download_button /\ zip_bytes # <<>>

\* C1: every uploaded file is attempted exactly once, in upload order; a
\* file whose read, decode or tagging call raises is reported as an error
\* for that file only, the later files are still processed, and the run
\* reaches the output stage: the handler is never anywhere but before,
\* in or after the loop, each step of the loop handles exactly the next
\* file or leaves the loop after the last one, and the archive is
\* assembled when some file succeeded.
C1_BatchRunsToOutput ==
    /\ [](C1_InOrder)
    /\ [](pc \in {"idle", "loop", "done"} /\ i <= Len(uploaded_files))
    /\ [][pc = "loop" =>
             \/ i < Len(uploaded_files) /\ i' = i + 1 /\ pc' = "loop"
             \/ i = Len(uploaded_files) /\ i' = i /\ pc' = "done"]_vars

\* a failed first file, a processed second file, and the archive built
C1_Witness ==
    /\ ArchiveBuilt
    /\ Len(Outcomes) >= 2
    /\ Outcomes[1].kind = "error"
    /\ Outcomes[2].kind = "success"

\* ----------------------------------------------------------------- C2
\* C2 as stated: the archive has exactly one member per upload that was
\* processed successfully.
C2_OneMemberPerProcessedFile ==
    ArchiveBuilt => Len(zip_bytes) = Cardinality(Succeeded)

\* is this the batch of three distinctly named files whose second fails
ThreeFileCase ==
    /\ Len(uploaded_files) = 3
    /\ Cardinality({uploaded_files[k].name : k \in 1..3}) = 3
    /\ Len(Outcomes) = 3
    /\ Outcomes[1].kind = "success"
    /\ Outcomes[2].what = "decode"
    /\ Outcomes[3].kind = "success"

\* C2 (amended): the archive has exactly one member per distinct original
\* filename among the uploads that were processed successfully, named after
\* the sanitized base name, and none for an upload that raised or had no
\* tokens; three distinctly named files of which the second fails to decode
\* give exactly two members, named after the first and the third.
C2_OneMemberPerProcessedName ==
    ArchiveBuilt =>
        /\ Len(zip_bytes) = Cardinality(SuccessNames)
        /\ {zip_bytes[k].name : k \in 1..Len(zip_bytes)}
               = {xml_name(n) : n \in SuccessNames}
        /\ ThreeFileCase =>
              /\ Len(zip_bytes) = 2
              /\ zip_bytes[1].name = xml_name(uploaded_files[1].name)
              /\ zip_bytes[2].name = xml_name(uploaded_files[3].name)

C2_Witness == ArchiveBuilt /\ ThreeFileCase /\ Len(zip_bytes) = 2

\* ----------------------------------------------------------------- C5
\* C5 as stated: the archive never holds two members with the same name.
C5_NoTwoMembersShareName ==
    ArchiveBuilt =>
        \A p, q \in 1..Len(zip_bytes) :
            p # q => zip_bytes[p].name # zip_bytes[q].name

\* C5 (amended): files with different original names whose sanitized base
\* names collide each keep their own member, under the same member name, in
\* upload order; only uploads with the same original name overwrite one
\* another, in output_data, before the archive is written.
C5_CollidingNamesBothKept ==
    /\ \A p, q \in 1..Len(output_data) :
          p # q => output_data[p].name # output_data[q].name
    /\ ArchiveBuilt =>
          \A x \in {xml_name(n) : n \in SuccessNames} :
              Cardinality({p \in 1..Len(zip_bytes) : zip_bytes[p].name = x})
                  = Cardinality({n \in SuccessNames : xml_name(n) = x})

C5_Witness ==
    /\ ArchiveBuilt
    /\ Len(zip_bytes) = 2
    /\ zip_bytes[1].name = zip_bytes[2].name
    /\ zip_bytes[1].content # zip_bytes[2].content

\* ----------------------------------------------------------------- C6
\* C6 as stated: every archive member begins with the XML declaration.
C6_MemberBeginsWithXmlDecl ==
    ArchiveBuilt =>
        \A k \in 1..Len(zip_bytes) :
            IsPrefix(encode_utf8(XmlDecl), zip_bytes[k].content)

\* first and last line of a member, from its name
MemberHeader(m) == CorpusOpen \o LangText(lang_code) \o IdAttr \o MemberBase(m) \o TagEnd
MemberFooter(m) == CorpusClose \o LangText(lang_code) \o IdAttr \o MemberBase(m) \o TagEnd

\* C6 (amended): every member's content is the UTF-8 encoding of the line
\* '<corpus lang="L" id="S">', the content block and the line
\* '</corpus lang="L" id="S">', joined by newlines; no XML declaration is
\* written, every member begins with '<corpus lang="'.
C6_MemberIsCorpusEnvelope ==
    ArchiveBuilt =>
        \A k \in 1..Len(zip_bytes) :
            LET m == zip_bytes[k]
            IN  /\ CanDecode(m.content)
                /\ encode_utf8(decode_utf8(m.content)) = m.content
                /\ IsPrefix(MemberHeader(m) \o <<10>>, decode_utf8(m.content))
                /\ IsSuffix(<<10>> \o MemberFooter(m), decode_utf8(m.content))
                /\ Len(m.content) >= Len(encode_utf8(MemberHeader(m)))
                                     + Len(encode_utf8(MemberFooter(m))) + 2
                /\ ~IsPrefix(encode_utf8(XmlDecl), m.content)

C6_Witness == ArchiveBuilt /\ Len(zip_bytes) >= 1

\* ----------------------------------------------------------------- C7
LineLen(triple) == Len(triple[1]) + Len(triple[2]) + Len(triple[3]) + 2

\* 1-based position at which the k-th line starts in the block
RECURSIVE LineStart(_, _)
LineStart(d, k) ==
    IF k = 1 THEN 1 ELSE LineStart(d, k - 1) + LineLen(d[k - 1]) + 1

\* is b the rendering of d: line k is token TAB pos TAB lemma, verbatim,
\* and consecutive lines are separated by one newline
IsBlockOf(b, d) ==
    IF d = <<>> THEN b = <<>>
    ELSE /\ Len(b) = LineStart(d, Len(d)) + LineLen(d[Len(d)]) - 1
         /\ \A k \in 1..Len(d) :
               LET s == LineStart(d, k)
                   t == Len(d[k][1])
                   p == Len(d[k][2])
                   l == Len(d[k][3])
               IN  /\ SubSeq(b, s, s + t - 1) = d[k][1]
                   /\ b[s + t] = 9
                   /\ SubSeq(b, s + t + 1, s + t + p) = d[k][2]
                   /\ b[s + t + p + 1] = 9
                   /\ SubSeq(b, s + t + p + 2, s + t + p + l + 1) = d[k][3]
                   /\ k < Len(d) => b[s + t + p + l + 2] = 10

\* what lies between the first and the last line of a member
MemberBlock(m) ==
    LET t == decode_utf8(m.content)
    IN  SubSeq(t, Len(MemberHeader(m)) + 2, Len(t) - Len(MemberFooter(m)) - 1)

\* C7: the content block of create_xml_content is the triples in order,
\* each as token TAB pos TAB lemma, joined by a single newline, the token
\* text verbatim (embedded tabs and newlines included), and it is empty for
\* an empty sequence.
C7_ContentBlockIsTabbedLines ==
    /\ content_block(<<>>) = <<>>
    /\ ArchiveBuilt =>
          /\ Len(zip_bytes) = Len(output_data)
          /\ \A k \in 1..Len(zip_bytes) :
                IsBlockOf(MemberBlock(zip_bytes[k]), output_data[k].data)

\* a member of two lines, one of whose tokens holds a tab
C7_Witness ==
    /\ ArchiveBuilt
    /\ \E k \in 1..Len(output_data) :
          /\ Len(output_data[k].data) = 2
          /\ \E j \in 1..2 : 9 \in {output_data[k].data[j][1][x] :
                                       x \in 1..Len(output_data[k].data[j][1])}

\* ----------------------------------------------------------------- C8
\* the last message, when it is the no-tokens warning
WarnedNoTokens(msgs) == msgs # <<>> /\ msgs[Len(msgs)].what = "no_tokens"

\* C8: a file whose tagging call yields no tokens (blank text, or the
\* tagger not loaded) is reported as a warning and adds no archive entry,
\* the batch goes on; every entry of output_data, and so every entry given
\* to create_zip_archive, has a non-empty token list.
C8_NoTokensNoEntry ==
    /\ [](\A k \in 1..Len(output_data) : output_data[k].data # <<>>)
    /\ [](\A k \in 1..Len(Outcomes) :
             (/\ CanDecode(uploaded_files[k].bytes)
              /\ Outcomes[k].kind # "error"
              /\ \/ tagger_instance = "None"
                 \/ Strip(decode_utf8(uploaded_files[k].bytes)) = <<>>)
             => Outcomes[k].kind = "warning")
    /\ [][(Len(messages') > Len(messages) /\ WarnedNoTokens(messages'))
              => /\ output_data' = output_data
                 /\ i' = i + 1
                 /\ pc' = "loop"]_vars

\* a blank file drew the warning, a later file was processed, and the
\* archive was built
C8_Witness ==
    /\ ArchiveBuilt
    /\ tagger_instance = "loaded"
    /\ Len(Outcomes) >= 2
    /\ Outcomes[1].kind = "warning"
    /\ Outcomes[2].kind = "success"

\* ----------------------------------------------------------------- C9
\* C9: at the end of a batch the archive is built and offered for download
\* exactly when some file produced an archive entry; otherwise the failure
\* is reported and no archive is produced.
C9_ArchiveIffEntries ==
    /\ pc # "done" => ~download_button /\ zip_bytes = <<>>
    /\ pc = "done" =>
          /\ download_button <=> Succeeded # {}
          /\ download_button <=> zip_bytes # <<>>
          /\ messages[Len(messages)] =
                 IF Succeeded # {}
                 THEN Msg("success", 0, "complete", 0)
                 ELSE Msg("error", 0, "none_processed", 0)

\* a batch of two files, neither of which produced an entry
C9_Witness ==
    /\ pc = "done"
    /\ Len(uploaded_files) = 2
    /\ Succeeded = {}
    /\ ~download_button

\* ----------------------------------------------------------------- C3
\* XML name characters, on Latin-1
XmlNameStart(c) ==
    c \in (65..90) \cup (97..122) \cup {58, 95}
          \cup (192..214) \cup (216..246) \cup (248..255)
XmlNameChar(c) == XmlNameStart(c) \/ c \in (48..57) \cup {45, 46, 183}

RECURSIVE XmlNameEnd(_, _)
XmlNameEnd(s, p) ==
    IF p <= Len(s) /\ XmlNameChar(s[p]) THEN XmlNameEnd(s, p + 1) ELSE p - 1

RECURSIVE XmlSkipSpace(_, _)
XmlSkipSpace(s, p) ==
    IF p <= Len(s) /\ s[p] \in {9, 10, 13, 32} THEN XmlSkipSpace(s, p + 1) ELSE p

\* is s, from p on, well-formed content that closes the elements in `open`
\* (elements without attributes, character data without '&')
RECURSIVE XmlContentFrom(_, _, _)
XmlContentFrom(s, p, open) ==
    IF p > Len(s) THEN open = <<>>
    ELSE IF s[p] = 38 THEN FALSE
    ELSE IF s[p] # 60 THEN XmlContentFrom(s, p + 1, open)
    ELSE IF p + 1 <= Len(s) /\ s[p + 1] = 47
    THEN LET e == XmlNameEnd(s, p + 2)
             q == XmlSkipSpace(s, e + 1)
         IN  /\ e >= p + 2
             /\ XmlNameStart(s[p + 2])
             /\ q <= Len(s)
             /\ s[q] = 62
             /\ open # <<>>
             /\ open[Len(open)] = SubSeq(s, p + 2, e)
             /\ XmlContentFrom(s, q + 1, SubSeq(open, 1, Len(open) - 1))
    ELSE LET e == XmlNameEnd(s, p + 1)
             q == XmlSkipSpace(s, e + 1)
         IN  /\ e >= p + 1
             /\ XmlNameStart(s[p + 1])
             /\ q <= Len(s)
             /\ \/ s[q] = 62
                   /\ XmlContentFrom(s, q + 1, Append(open, SubSeq(s, p + 1, e)))
                \/ /\ s[q] = 47
                   /\ q + 1 <= Len(s)
                   /\ s[q + 1] = 62
                   /\ XmlContentFrom(s, q + 2, open)

\* does the text, wrapped in a synthetic root, parse as markup
MarkupParses(text) == XmlContentFrom(text, 1, <<>>)

Chars(s) == {s[k] : k \in 1..Len(s)}

\* C3 as stated: markup characters of an input that parses are never
\* handed to the tagging function as text to tokenize.
C3_MarkupNeverTagged ==
    \A k \in 1..Len(tag_calls) :
        MarkupParses(tag_calls[k]) => 60 \notin Chars(tag_calls[k])

\* the uploads for which tagger_func was called
Tagged == {k \in 1..Len(Outcomes) : Outcomes[k].what \notin {"read", "decode"}}

RECURSIVE TextsOf(_)
TextsOf(k) ==
    IF k = 0 THEN <<>>
    ELSE TextsOf(k - 1)
         \o (IF k \in Tagged THEN <<decode_utf8(uploaded_files[k].bytes)>> ELSE <<>>)

NonSpace(text) == SelectSeq(text, LAMBDA c : ~IsSpace(c))

\* C3 (amended): processing one file hands the whole decoded text, markup
\* included, to the tagging function; for EN every token is a run of word
\* characters or a run of other non-space characters, is its own lemma, and
\* the tokens in order spell the input with its whitespace removed, so tag
\* names, attributes and text keep their relative order as tokens but no
\* element structure is kept.
C3_WholeTextTokenized ==
    /\ tag_calls = TextsOf(Len(Outcomes))
    /\ lang_code = "EN" =>
          \A e \in 1..Len(output_data) :
              \E k \in Succeeded :
                  /\ uploaded_files[k].name = output_data[e].name
                  /\ LET d == output_data[e].data
                     IN  /\ Concat([j \in 1..Len(d) |-> d[j][1]])
                               = NonSpace(decode_utf8(uploaded_files[k].bytes))
                         /\ \A j \in 1..Len(d) :
                               /\ d[j][3] = d[j][1]
                               /\ d[j][2] \in POSTags
                               /\ \/ \A c \in Chars(d[j][1]) : IsWord(c)
                                  \/ \A c \in Chars(d[j][1]) :
                                         ~IsWord(c) /\ ~IsSpace(c)

\* well-formed markup was uploaded and its '<' came out as a token
C3_Witness ==
    /\ ArchiveBuilt
    /\ lang_code = "EN"
    /\ MarkupParses(decode_utf8(uploaded_files[1].bytes))
    /\ \E j \in 1..Len(output_data[1].data) : 60 \in Chars(output_data[1].data[j][1])

\* ----------------------------------------------------------------- C10
\* '<text lang="' and '</text>'
TextOpen == <<60, 116, 101, 120, 116, 32, 108, 97, 110, 103, 61, 34>>
TextClose == <<60, 47, 116, 101, 120, 116, 62>>

\* the single upload is '<doc><p>broken' and the language is EN
BrokenMarkupCase ==
    /\ pc = "done"
    /\ lang_code = "EN"
    /\ Len(uploaded_files) = 1
    /\ uploaded_files[1].bytes = BytesBroken

\* C10 as stated: the output for '<doc><p>broken' is a '<text lang="EN">'
\* ... '</text>' envelope.
C10_TextEnvelope ==
    (BrokenMarkupCase /\ download_button) =>
        /\ IsPrefix(TextOpen \o LangText("EN") \o TagEnd,
                    decode_utf8(zip_bytes[1].content))
        /\ IsSuffix(TextClose, decode_utf8(zip_bytes[1].content))

\* the tokens of '<doc><p>broken': '<', 'doc', '><', 'p', '>', 'broken'
BrokenTokens ==
    << <<60>>, <<100, 111, 99>>, <<62, 60>>, <<112>>, <<62>>,
       <<98, 114, 111, 107, 101, 110>> >>

\* C10 (amended): for '<doc><p>broken' with EN nothing is raised to the
\* caller, and the output for the file is a '<corpus lang="EN" id="a">' ...
\* '</corpus lang="EN" id="a">' envelope (the id being the sanitized file
\* name) around the tagged-line block of the whole raw input, its markup
\* tokenized like any other text; without a loaded tagger, or when the
\* tagger raises, the file has no output.
C10_CorpusEnvelopeOfRawInput ==
    BrokenMarkupCase =>
        /\ Len(Outcomes) = 1
        /\ download_button <=> Outcomes[1].kind = "success"
        /\ download_button =>
              /\ Len(zip_bytes) = 1
              /\ \E pos \in [1..6 -> POSTags] :
                    decode_utf8(zip_bytes[1].content) =
                        <<60, 99, 111, 114, 112, 117, 115, 32, 108, 97, 110,
                          103, 61, 34, 69, 78, 34, 32, 105, 100, 61, 34, 97,
                          34, 62, 10>>
                        \o Join([k \in 1..6 |-> BrokenTokens[k] \o <<9>> \o pos[k]
                                                \o <<9>> \o BrokenTokens[k]],
                                <<10>>)
                        \o <<10, 60, 47, 99, 111, 114, 112, 117, 115, 32, 108,
                             97, 110, 103, 61, 34, 69, 78, 34, 32, 105, 100,
                             61, 34, 97, 34, 62>>

C10_Witness == BrokenMarkupCase /\ download_button /\ Len(zip_bytes) = 1

\* ----------------------------------------------------------------- C4
\* is k the position of the dot that starts the extension of name
IsExtensionAt(name, k) ==
    /\ name[k] = 46
    /\ \A j \in (k + 1)..Len(name) : name[j] \notin {46, 47}
    /\ \E j \in 1..(k - 1) :
          name[j] # 46 /\ \A m \in j..k : name[m] # 47

\* the filename with its extension dropped
ExtensionDropped(name) ==
    IF \E k \in 1..Len(name) : IsExtensionAt(name, k)
    THEN SubSeq(name, 1, (CHOOSE k \in 1..Len(name) : IsExtensionAt(name, k)) - 1)
    ELSE name

\* does s end with ' (N)' starting at p
IsDupSuffixAt(s, p) ==
    /\ p + 3 <= Len(s)
    /\ s[p] = 32
    /\ s[p + 1] = 40
    /\ s[Len(s)] = 41
    /\ \A j \in (p + 2)..(Len(s) - 1) : s[j] \in 48..57

\* s with a trailing ' (N)' removed
DupSuffixRemoved(s) ==
    IF \E p \in 1..Len(s) : IsDupSuffixAt(s, p)
    THEN SubSeq(s, 1, (CHOOSE p \in 1..Len(s) : IsDupSuffixAt(s, p)) - 1)
    ELSE s

\* s from its first to its last non-space character
Trimmed(s) ==
    LET solid == {k \in 1..Len(s) : ~IsSpace(s[k])}
    IN  IF solid = {} THEN <<>>
        ELSE SubSeq(s, CHOOSE k \in solid : \A j \in solid : k <= j,
                       CHOOSE k \in solid : \A j \in solid : k >= j)

Sanitized(name) == Trimmed(DupSuffixRemoved(ExtensionDropped(name)))

\* C4: the sanitized name is the filename with its extension dropped, then
\* a trailing ' (N)' removed, then trimmed ('My File (2).txt' gives
\* 'My File', 'plain.txt' gives 'plain', 'no_ext' gives 'no_ext'), and the
\* same value is the document id and the base of the member name
\* '<sanitized>_tagged.xml'.
C4_SanitizedNameUsedTwice ==
    ArchiveBuilt =>
        /\ Len(zip_bytes) = Len(output_data)
        /\ \A k \in 1..Len(zip_bytes) :
              LET name == output_data[k].name
                  m == zip_bytes[k]
              IN  /\ m.name = Sanitized(name) \o TaggedSuffix
                  /\ IsPrefix(CorpusOpen \o LangText(lang_code) \o IdAttr
                              \o Sanitized(name) \o TagEnd \o <<10>>,
                              decode_utf8(m.content))
                  /\ IsSuffix(<<10>> \o CorpusClose \o LangText(lang_code)
                              \o IdAttr \o Sanitized(name) \o TagEnd,
                              decode_utf8(m.content))
                  /\ name = NameMyFile2 =>
                        m.name = <<77, 121, 32, 70, 105, 108, 101, 95, 116, 97,
                                   103, 103, 101, 100, 46, 120, 109, 108>>
                  /\ name = NamePlain =>
                        m.name = <<112, 108, 97, 105, 110, 95, 116, 97, 103,
                                   103, 101, 100, 46, 120, 109, 108>>
                  /\ name = NameNoExt =>
                        m.name = <<110, 111, 95, 101, 120, 116, 95, 116, 97,
                                   103, 103, 101, 100, 46, 120, 109, 108>>

\* 'My File (2).txt' was archived as 'My File_tagged.xml'
C4_Witness ==
    /\ ArchiveBuilt
    /\ output_data[1].name = NameMyFile2
    /\ zip_bytes[1].name = <<77, 121, 32, 70, 105, 108, 101>> \o TaggedSuffix

====
